---- MODULE Spec2Model ----
(***************************************************************************)
(* Model of mindcompany/clay_clean: clay.py (first-name normalisation,     *)
(* e-mail validation with retry on HTTP 429, the per-file pipeline and the *)
(* multi-file batch loop) and dedupe.py (de-duplication of an input table  *)
(* against a master table).                                                *)
(*                                                                         *)
(* Text is modelled as a sequence of one-character strings.  A missing     *)
(* cell (pandas NaN) is the one-element sequence NaN.                      *)
(***************************************************************************)
EXTENDS Integers, Sequences, FiniteSets, TLC

VARIABLES
    \* ---- clay.py: main / process_csv / validate_email ----
    numFiles,       \* len(files_to_process)
    fileIdx,        \* i of the for loop over files_to_process
    mainPc,         \* position of main
    attempts,       \* one record per file the loop has finished with
    csvPc,          \* position of process_csv
    inputTable,     \* the table as pd.read_csv returned it
    df,             \* the data frame process_csv works on
    invalid_names,  \* the list clean_and_track appends to
    validated_count,\* the counter of validate_with_progress
    results,        \* the values Series.apply has collected so far
    valPc,          \* position of validate_email
    depth,          \* nesting depth of validate_email's recursion
    nreq,           \* requests issued by the current validate_email call
    req,            \* the request last issued
    inflight,       \* requests issued and not yet answered
    resp,           \* the response last received
    ret,            \* the value validate_email returned
    output,         \* what process_csv wrote: cleaned table and report
    \* ---- clay.py: clean_first_name on its own ----
    rawName, cleaned, namePc,
    \* ---- dedupe.py: dedupe_csv ----
    master_df,      \* the master table as read
    input_read,     \* the input table as pd.read_csv returned it
    input_df,       \* the input table dedupe_csv works on
    unique_df,      \* the table dedupe_csv writes
    dedupePc        \* position of dedupe_csv

mainVars == <<numFiles, fileIdx, mainPc, attempts, csvPc, inputTable, df,
              invalid_names, validated_count, results, valPc, depth, nreq,
              req, inflight, resp, ret, output>>
nameVars == <<rawName, cleaned, namePc>>
dedupeVars == <<master_df, input_read, input_df, unique_df, dedupePc>>
vars == <<mainVars, nameVars, dedupeVars>>

----------------------------------------------------------------------------
(* Bounds of the model *)

MaxFiles == 2       \* files in the queue
MaxRows == 2        \* rows of a table of the cleaner pipeline
RecursionLimit == 2 \* stands for the interpreter's recursion limit (1000)
MaxNameLen == 4     \* characters of a first name given to clean_first_name
MaxMasterRows == 2  \* rows of the master table
MaxInputRows == 2   \* rows of the table to de-duplicate

----------------------------------------------------------------------------
(* Text *)

NaN == <<"nan">>
isna(v) == v = NaN

Whitespace == {" "}
LowerCase == {"a", "b", "g", "m"}
UpperCase == {"A", "B", "G", "M"}
Letters == LowerCase \cup UpperCase

Upper(c) ==
    CASE c = "a" -> "A" [] c = "b" -> "B" [] c = "g" -> "G" [] c = "m" -> "M"
      [] OTHER -> c
Lower(c) ==
    CASE c = "A" -> "a" [] c = "B" -> "b" [] c = "G" -> "g" [] c = "M" -> "m"
      [] OTHER -> c

\* str.strip(): drop the whitespace at both ends
RECURSIVE LStrip(_)
LStrip(s) == IF s # <<>> /\ Head(s) \in Whitespace THEN LStrip(Tail(s)) ELSE s
RECURSIVE RStrip(_)
RStrip(s) ==
    IF s # <<>> /\ s[Len(s)] \in Whitespace
    THEN RStrip(SubSeq(s, 1, Len(s) - 1)) ELSE s
Strip(s) == LStrip(RStrip(s))

\* str.split()[0]: the first whitespace-delimited token; <<>> stands for
\* the IndexError of an empty list
RECURSIVE TakeToken(_)
TakeToken(s) ==
    IF s = <<>> \/ Head(s) \in Whitespace THEN <<>>
    ELSE <<Head(s)>> \o TakeToken(Tail(s))
FirstToken(s) == TakeToken(LStrip(s))

\* str.capitalize()
Capitalize(s) ==
    [i \in 1..Len(s) |-> IF i = 1 THEN Upper(s[i]) ELSE Lower(s[i])]

----------------------------------------------------------------------------
(* clay.py: is_initials and clean_first_name *)

SingleQuote == "'"
DoubleQuote == "\""
\* the curly double quotes U+201C and U+201D
LeftCurlyQuote == "ldq"
RightCurlyQuote == "rdq"

\* {0,2} of the pattern of is_initials
MaxMoreInitials == 2

\* (?:[. ]?[A-Za-z]){0,n}[.]?$ matched from position i of s
RECURSIVE InitialsTail(_, _, _)
InitialsTail(s, i, n) ==
    \/ i = Len(s) + 1
    \/ i = Len(s) /\ s[i] = "."
    \/ n > 0 /\ i <= Len(s) /\ s[i] \in Letters /\ InitialsTail(s, i + 1, n - 1)
    \/ n > 0 /\ i + 1 <= Len(s) /\ s[i] \in {".", " "} /\ s[i + 1] \in Letters
             /\ InitialsTail(s, i + 2, n - 1)

is_initials(name) ==
    IF isna(name) THEN FALSE
    ELSE LET s == Strip(name)
         IN  Len(s) >= 1 /\ s[1] \in Letters /\ InitialsTail(s, 2, MaxMoreInitials)

\* the end of the longest run of characters outside stop that starts at i
RECURSIVE RunEnd(_, _, _)
RunEnd(s, i, stop) ==
    IF i <= Len(s) /\ s[i] \notin stop THEN RunEnd(s, i + 1, stop) ELSE i

NoMatch == [found |-> FALSE, group |-> <<>>]

\* one alternative open([^stop]+)stop of the quotation pattern, tried at
\* position p: the run is greedy and must be followed by a closing character
MatchAlt(s, p, open, stop) ==
    LET e == RunEnd(s, p + 1, stop)
    IN  IF s[p] \in open /\ e > p + 1 /\ e <= Len(s)
        THEN [found |-> TRUE, group |-> SubSeq(s, p + 1, e - 1)]
        ELSE NoMatch

\* the three alternatives of the pattern, in the order the pattern lists them
QuoteAlternatives ==
    << [open |-> {SingleQuote, DoubleQuote}, stop |-> {SingleQuote, DoubleQuote}],
       [open |-> {DoubleQuote}, stop |-> {DoubleQuote}],
       [open |-> {SingleQuote}, stop |-> {SingleQuote}] >>

RECURSIVE MatchAt(_, _, _)
MatchAt(s, p, k) ==
    IF k > Len(QuoteAlternatives) THEN NoMatch
    ELSE LET m == MatchAlt(s, p, QuoteAlternatives[k].open, QuoteAlternatives[k].stop)
         IN  IF m.found THEN m ELSE MatchAt(s, p, k + 1)

\* re.search: the match at the leftmost position that has one
RECURSIVE QuoteSearch(_, _)
QuoteSearch(s, p) ==
    IF p > Len(s) THEN NoMatch
    ELSE LET m == MatchAt(s, p, 1)
         IN  IF m.found THEN m ELSE QuoteSearch(s, p + 1)

\* the result of clean_first_name: (name, is_valid), or raised (IndexError
\* of name.split()[0])
Cleaned(n, v) == [name |-> n, valid |-> v, raised |-> FALSE]
Raised == [name |-> <<>>, valid |-> FALSE, raised |-> TRUE]

clean_first_name(name) ==
    IF isna(name) THEN Cleaned(name, FALSE)
    ELSE LET s == Strip(name)
             quote_match == QuoteSearch(s, 1)
         IN  IF is_initials(s) THEN Cleaned(s, FALSE)
             ELSE IF quote_match.found /\ quote_match.group # <<>>
                  THEN Cleaned(Strip(quote_match.group), TRUE)
             ELSE IF FirstToken(s) = <<>> THEN Raised
             ELSE Cleaned(Capitalize(FirstToken(s)), TRUE)

----------------------------------------------------------------------------
(* clay.py: validate_email *)

\* the threshold of `quality_score > 0.7`, in hundredths
QualityThreshold == 70

\* What requests.get produced: an HTTP response, or a transport-level
\* exception.  The body of a 200 response either fails to parse as JSON or
\* holds the three fields, each of which may be absent; quality_score is in
\* hundredths, -1 when absent.
HttpResponse(st) ==
    [kind |-> "http", status |-> st, json |-> FALSE,
     deliverability |-> "absent", quality_score |-> -1, is_valid_format |-> "absent"]
OkResponses ==
    [kind : {"http"}, status : {200}, json : {TRUE},
     deliverability : {"DELIVERABLE", "UNDELIVERABLE", "absent"},
     quality_score : {-1, QualityThreshold, QualityThreshold + 1},
     is_valid_format : {"true", "false", "absent"}]
TransportError == [HttpResponse(0) EXCEPT !.kind = "exception"]
NoResponse == [HttpResponse(0) EXCEPT !.kind = "none"]
Responses ==
    OkResponses \cup {HttpResponse(200), HttpResponse(429), HttpResponse(422),
                      HttpResponse(500), TransportError}

\* data.get('deliverability') == 'DELIVERABLE'
IsDeliverable(r) == r.deliverability = "DELIVERABLE"
\* float(data.get('quality_score', 0))
QualityScore(r) == IF r.quality_score = -1 THEN 0 ELSE r.quality_score
\* data.get('is_valid_format', {}).get('value', False)
IsValidFormat(r) == r.is_valid_format = "true"

GoodQualityInclusive(score) == score >= QualityThreshold
\* quality_score > 0.7
GoodQuality(score) == score > QualityThreshold

\* the branch for status 200; a body that is no JSON raises, and the
\* exception handler returns False
Validate200(r) ==
    IF ~r.json THEN FALSE
    ELSE IsDeliverable(r) /\ GoodQuality(QualityScore(r)) /\ IsValidFormat(r)

RetriedStatusesWithQuota == {429, 422}
\* the statuses that make validate_email sleep and call itself again
RetriedStatuses == {429}

\* the recursive call of validate_email succeeds while the interpreter's
\* recursion limit is not reached; beyond it the call raises RecursionError,
\* which `except Exception` turns into False
CanRecurse(d) == d < RecursionLimit

----------------------------------------------------------------------------
(* clay.py: process_csv *)

FirstName == "First Name"
Email == "Email"
RequiredColumns == {FirstName, Email}

\* first names of the pipeline's tables: missing, initials, a plain name and
\* a name of whitespace only
PipelineNames ==
    {NaN, <<"A", ".", "B">>, <<"m", "a", " ", "g", "a">>, <<" ", " ">>}
Emails == {<<"x">>, <<"y">>}

ColumnValues(c) == IF c = FirstName THEN PipelineNames ELSE Emails

RowsOver(cols) ==
    {r \in [cols -> PipelineNames \cup Emails] : \A c \in cols : r[c] \in ColumnValues(c)}

RECURSIVE SeqsUpTo(_, _)
SeqsUpTo(S, n) ==
    IF n = 0 THEN {<<>>}
    ELSE LET shorter == SeqsUpTo(S, n - 1)
         IN  shorter \cup {Append(q, x) : q \in shorter, x \in S}

\* the tables pd.read_csv can deliver: the required columns or only one of
\* them, and at least one row
Tables ==
    UNION {[cols : {cols}, rows : SeqsUpTo(RowsOver(cols), MaxRows) \ {<<>>}] :
           cols \in {RequiredColumns, {FirstName}, {Email}}}
NoTable == [cols |-> {}, rows |-> <<>>]

\* df.apply(clean_and_track, axis=1) over the rows from position i on:
\* the cleaned names, the invalid_names appended, and whether a row raised
\* (KeyError of a missing column, IndexError of clean_first_name)
RECURSIVE CleanAndTrack(_, _, _, _)
CleanAndTrack(rows, i, names, invalid) ==
    IF i > Len(rows) THEN [raised |-> FALSE, names |-> names, invalid |-> invalid]
    ELSE IF FirstName \notin DOMAIN rows[i]
         THEN [raised |-> TRUE, names |-> names, invalid |-> invalid]
    ELSE LET c == clean_first_name(rows[i][FirstName])
         IN  IF c.raised THEN [raised |-> TRUE, names |-> names, invalid |-> invalid]
             ELSE IF c.valid
                  THEN CleanAndTrack(rows, i + 1, Append(names, c.name), invalid)
             ELSE IF Email \notin DOMAIN rows[i]
                  THEN [raised |-> TRUE, names |-> names, invalid |-> invalid]
             ELSE CleanAndTrack(rows, i + 1, Append(names, c.name),
                      Append(invalid, [name |-> rows[i][FirstName],
                                       email |-> rows[i][Email]]))

\* df[column] = values
SetColumn(rows, column, values) ==
    [i \in 1..Len(rows) |->
        [c \in DOMAIN rows[i] \cup {column} |->
            IF c = column THEN values[i] ELSE rows[i][c]]]

\* df[mask]: the rows whose mask value is true, in order
RECURSIVE MaskRows(_, _, _)
MaskRows(rows, mask, i) ==
    IF i > Len(rows) THEN <<>>
    ELSE (IF mask[i] THEN <<rows[i]>> ELSE <<>>) \o MaskRows(rows, mask, i + 1)

\* .drop(column, axis=1)
DropColumn(rows, column) ==
    [i \in 1..Len(rows) |-> [c \in DOMAIN rows[i] \ {column} |-> rows[i][c]]]

\* df['is_valid_email'].sum()
RECURSIVE CountTrue(_)
CountTrue(mask) ==
    IF mask = <<>> THEN 0 ELSE (IF Head(mask) THEN 1 ELSE 0) + CountTrue(Tail(mask))

Tag == "is_valid_email"

KeepAllRows(rows, mask) == DropColumn(SetColumn(rows, Tag, mask), Tag)
\* df = df[df['is_valid_email']].drop('is_valid_email', axis=1)
KeepValid(rows, mask) == DropColumn(MaskRows(SetColumn(rows, Tag, mask), mask, 1), Tag)

ReportTotalAfterFilter(total, valid, invalid) ==
    [total |-> valid, valid |-> valid, invalid |-> Len(invalid), entries |-> invalid]
\* the summary and the entries written to the report file
Report(total, valid, invalid) ==
    [total |-> total, valid |-> valid, invalid |-> Len(invalid), entries |-> invalid]

NoOutput == [written |-> FALSE, cleaned |-> <<>>, report |-> Report(0, 0, <<>>)]
NoRequest == [row |-> 0, email |-> <<>>]

----------------------------------------------------------------------------
(* dedupe.py: dedupe_csv *)

LinkedInURL == "LinkedIn URL"
LinkedInProfile == "LinkedIn Profile"
Name == "Name"

\* set(master_df['LinkedIn URL'].dropna().str.strip().tolist())
MasterUrlsUnstripped(rows) ==
    {rows[i][LinkedInURL] : i \in {j \in 1..Len(rows) : ~isna(rows[j][LinkedInURL])}}
MasterUrls(rows) ==
    {Strip(rows[i][LinkedInURL]) :
        i \in {j \in 1..Len(rows) : ~isna(rows[j][LinkedInURL])}}

\* input_df['LinkedIn Profile'].fillna('').str.strip(), written back
FillNaStrip(v) == IF isna(v) THEN <<>> ELSE Strip(v)
NormalizeProfiles(rows) ==
    [i \in 1..Len(rows) |->
        [rows[i] EXCEPT ![LinkedInProfile] = FillNaStrip(rows[i][LinkedInProfile])]]

\* ~input_df['LinkedIn Profile'].isin(master_urls) & (input_df['LinkedIn Profile'] != '')
UniqueMask(rows, master_urls) ==
    [i \in 1..Len(rows) |->
        /\ rows[i][LinkedInProfile] \notin master_urls
        /\ rows[i][LinkedInProfile] # <<>>]

----------------------------------------------------------------------------
(* Specification of clean_first_name as a function of its argument *)

NameChars ==
    {"a", "B", " ", ".", SingleQuote, DoubleQuote, LeftCurlyQuote, RightCurlyQuote}

RECURSIVE TextsUpTo(_, _)
TextsUpTo(chars, n) ==
    IF n = 0 THEN {<<>>}
    ELSE LET shorter == TextsUpTo(chars, n - 1)
         IN  shorter \cup {Append(t, c) : t \in shorter, c \in chars}

\* a cell of a CSV file as pd.read_csv delivers it: an empty cell is NaN
CellValues(chars, n) == (TextsUpTo(chars, n) \ {<<>>}) \cup {NaN}

NotCleaned == [name |-> <<>>, valid |-> FALSE, raised |-> FALSE]

mainIdle ==
    /\ numFiles = 0 /\ fileIdx = 0 /\ mainPc = "off" /\ attempts = <<>>
    /\ csvPc = "off" /\ inputTable = NoTable /\ df = NoTable
    /\ invalid_names = <<>> /\ validated_count = 0 /\ results = <<>>
    /\ valPc = "off" /\ depth = 0 /\ nreq = 0 /\ req = NoRequest
    /\ inflight = 0 /\ resp = NoResponse /\ ret = FALSE /\ output = NoOutput
nameIdle == rawName = <<>> /\ cleaned = NotCleaned /\ namePc = "off"
dedupeIdle ==
    /\ master_df = NoTable /\ input_read = NoTable /\ input_df = NoTable
    /\ unique_df = NoTable /\ dedupePc = "off"

NameInit ==
    /\ rawName \in CellValues(NameChars, MaxNameLen)
    /\ cleaned = NotCleaned
    /\ namePc = "call"
    /\ mainIdle /\ dedupeIdle

CleanFirstName ==
    /\ namePc = "call"
    /\ cleaned' = clean_first_name(rawName)
    /\ namePc' = IF cleaned'.raised THEN "raised" ELSE "returned"
    /\ UNCHANGED <<rawName, mainVars, dedupeVars>>

NameNext == CleanFirstName
NameSpec == NameInit /\ [][NameNext]_vars

----------------------------------------------------------------------------
(* clay.py: main from the processing loop on, process_csv, validate_email *)

MainInit ==
    /\ numFiles \in 1..MaxFiles
    /\ fileIdx = 1
    /\ mainPc = "loop"
    /\ attempts = <<>>
    /\ csvPc = "off" /\ inputTable = NoTable /\ df = NoTable
    /\ invalid_names = <<>> /\ validated_count = 0 /\ results = <<>>
    /\ valPc = "off" /\ depth = 0 /\ nreq = 0 /\ req = NoRequest
    /\ inflight = 0 /\ resp = NoResponse /\ ret = FALSE /\ output = NoOutput
    /\ nameIdle /\ dedupeIdle

validateVars == <<valPc, depth, nreq, req, inflight, resp, ret>>
fileVars == <<numFiles, fileIdx, mainPc, attempts>>

\* main: the loop body calls process_csv on the next file of the queue
StartFile ==
    /\ mainPc = "loop" /\ fileIdx <= numFiles
    /\ mainPc' = "call"
    /\ csvPc' = "read"
    /\ UNCHANGED <<nameVars, dedupeVars, numFiles, fileIdx, attempts, inputTable, df, invalid_names,
                   validated_count, results, validateVars, output>>

\* process_csv: pd.read_csv delivers a table
ReadCsv ==
    /\ csvPc = "read"
    /\ \E t \in Tables :
        /\ inputTable' = t
        /\ df' = t
    /\ invalid_names' = <<>>
    /\ csvPc' = "clean"
    /\ UNCHANGED <<nameVars, dedupeVars, fileVars, validated_count, results, validateVars, output>>

\* process_csv: pd.read_csv raises (the file cannot be read or parsed)
ReadCsvFails ==
    /\ csvPc = "read"
    /\ csvPc' = "raised"
    /\ UNCHANGED <<nameVars, dedupeVars, fileVars, inputTable, df, invalid_names, validated_count,
                   results, validateVars, output>>

\* process_csv: df['First Name'] = df.apply(clean_and_track, axis=1)
CleanNames ==
    /\ csvPc = "clean"
    /\ LET c == CleanAndTrack(df.rows, 1, <<>>, <<>>)
       IN  /\ invalid_names' = c.invalid
           /\ IF c.raised
              THEN /\ csvPc' = "raised"
                   /\ df' = df
              ELSE /\ csvPc' = "validate"
                   /\ df' = [df EXCEPT !.rows = SetColumn(df.rows, FirstName, c.names)]
    /\ validated_count' = 0
    /\ results' = <<>>
    /\ UNCHANGED <<nameVars, dedupeVars, fileVars, inputTable, validateVars, output>>

\* process_csv: df['Email'] raises KeyError
EmailColumnMissing ==
    /\ csvPc = "validate" /\ valPc = "off"
    /\ Email \notin df.cols
    /\ csvPc' = "raised"
    /\ UNCHANGED <<nameVars, dedupeVars, fileVars, inputTable, df, invalid_names, validated_count,
                   results, validateVars, output>>

\* Series.apply calls validate_with_progress on the next e-mail, which calls
\* validate_email
CallValidate ==
    /\ csvPc = "validate" /\ valPc = "off"
    /\ Email \in df.cols
    /\ Len(results) < Len(df.rows)
    /\ validated_count' = validated_count + 1
    /\ valPc' = "ready"
    /\ depth' = 1
    /\ nreq' = 0
    /\ UNCHANGED <<nameVars, dedupeVars, fileVars, csvPc, inputTable, df, invalid_names, results,
                   req, inflight, resp, ret, output>>

\* validate_email: requests.get sends the request
Request ==
    /\ valPc = "ready"
    /\ req' = [row |-> validated_count,
               email |-> df.rows[Len(results) + 1][Email]]
    /\ nreq' = nreq + 1
    /\ inflight' = inflight + 1
    /\ valPc' = "waiting"
    /\ UNCHANGED <<nameVars, dedupeVars, fileVars, csvPc, inputTable, df, invalid_names,
                   validated_count, results, depth, resp, ret, output>>

\* validate_email: requests.get returns or raises, and the branch on the
\* status code runs
Respond ==
    /\ valPc = "waiting"
    /\ \E r \in Responses :
        /\ resp' = r
        /\ IF r.kind = "http" /\ r.status = 200
           THEN ret' = Validate200(r) /\ valPc' = "returned"
           ELSE IF r.kind = "http" /\ r.status \in RetriedStatuses
                THEN ret' = ret /\ valPc' = "sleep"
           ELSE ret' = FALSE /\ valPc' = "returned"
    /\ inflight' = inflight - 1
    /\ UNCHANGED <<nameVars, dedupeVars, fileVars, csvPc, inputTable, df, invalid_names,
                   validated_count, results, depth, nreq, req, output>>

\* validate_email: after time.sleep(1) the function calls itself
Retry ==
    /\ valPc = "sleep"
    /\ IF CanRecurse(depth)
       THEN /\ depth' = depth + 1
            /\ valPc' = "ready"
            /\ ret' = ret
       ELSE /\ depth' = depth
            /\ valPc' = "returned"
            /\ ret' = FALSE
    /\ UNCHANGED <<nameVars, dedupeVars, fileVars, csvPc, inputTable, df, invalid_names,
                   validated_count, results, nreq, req, inflight, resp, output>>

ValidateNotAwaited(pc) == pc \in {"returned", "waiting"}
\* validate_with_progress goes on once validate_email has returned
ValidateReturned(pc) == pc = "returned"

\* validate_with_progress returns the result to Series.apply
Progress ==
    /\ csvPc = "validate"
    /\ ValidateReturned(valPc)
    /\ results' = Append(results, ret)
    /\ valPc' = "off"
    /\ depth' = 0
    /\ nreq' = 0
    /\ req' = NoRequest
    /\ resp' = NoResponse
    /\ ret' = FALSE
    /\ UNCHANGED <<nameVars, dedupeVars, fileVars, csvPc, inputTable, df, invalid_names,
                   validated_count, inflight, output>>

\* process_csv from `valid_count = ...` to its return: the rows are
\* filtered, the cleaned table and the report are written
Finish ==
    /\ csvPc = "validate" /\ valPc = "off"
    /\ Email \in df.cols
    /\ Len(results) = Len(df.rows)
    /\ LET total_emails == Len(df.rows)
           valid_count == CountTrue(results)
           kept == KeepValid(df.rows, results)
       IN  /\ df' = [df EXCEPT !.rows = kept]
           /\ output' = [written |-> TRUE, cleaned |-> kept,
                         report |-> Report(total_emails, valid_count, invalid_names)]
    /\ csvPc' = "returned"
    /\ UNCHANGED <<nameVars, dedupeVars, fileVars, inputTable, invalid_names, validated_count,
                   results, validateVars>>

NextFileUnlessError(i, ok) == IF ok THEN i + 1 ELSE numFiles + 1
\* the for loop goes on with the next file whether or not process_csv raised:
\* the try/except is inside the loop body
NextFile(i, ok) == i + 1

\* main: process_csv returned, or the except clause caught what it raised;
\* the loop goes to the next file
EndFile(ok) ==
    /\ attempts' = Append(attempts, [file |-> fileIdx, ok |-> ok])
    /\ fileIdx' = NextFile(fileIdx, ok)
    /\ mainPc' = "loop"
    /\ csvPc' = "off"
    /\ inputTable' = NoTable /\ df' = NoTable
    /\ invalid_names' = <<>> /\ validated_count' = 0 /\ results' = <<>>
    /\ valPc' = "off" /\ depth' = 0 /\ nreq' = 0 /\ req' = NoRequest
    /\ resp' = NoResponse /\ ret' = FALSE /\ output' = NoOutput
    /\ UNCHANGED <<nameVars, dedupeVars, numFiles, inflight>>

FileDone == mainPc = "call" /\ csvPc = "returned" /\ EndFile(TRUE)
FileError == mainPc = "call" /\ csvPc = "raised" /\ EndFile(FALSE)

\* main: the loop is over, the summary is printed
Summary ==
    /\ mainPc = "loop" /\ fileIdx > numFiles
    /\ mainPc' = "done"
    /\ UNCHANGED <<nameVars, dedupeVars, numFiles, fileIdx, attempts, csvPc, inputTable, df,
                   invalid_names, validated_count, results, validateVars, output>>

Next ==
    \/ StartFile \/ ReadCsv \/ ReadCsvFails \/ CleanNames \/ EmailColumnMissing
    \/ CallValidate \/ Request \/ Respond \/ Retry \/ Progress \/ Finish
    \/ FileDone \/ FileError \/ Summary
Spec == MainInit /\ [][Next]_vars

----------------------------------------------------------------------------
(* Properties of validate_email *)

\* the response validate_email has just acted on
Answered200 == valPc = "returned" /\ resp.kind = "http" /\ resp.status = 200
FailureResponse ==
    \/ resp.kind = "exception"
    \/ resp.kind = "http" /\ resp.status \notin {200, 429}

\* C1: on an HTTP 200 response validate_email returns true exactly when the
\* deliverability is DELIVERABLE, the quality score (0 when absent) exceeds
\* 0.7 and the format is reported valid.
C1_KeepIffAllThree ==
    Answered200 =>
        (ret <=> /\ resp.json
                 /\ resp.deliverability = "DELIVERABLE"
                 /\ (IF resp.quality_score = -1 THEN 0 ELSE resp.quality_score) > 70
                 /\ resp.is_valid_format = "true")
C1_Witness == Answered200 /\ ret /\ nreq > 1

\* C2: validate_email never returns while the responses are 429: a returned
\* call has received a response that is not 429.
C2_ReturnsOnlyOnNon429 ==
    valPc = "returned" => ~(resp.kind = "http" /\ resp.status = 429)

\* C3: after HTTP 422, any status other than 200 and 429, or a transport
\* exception, validate_email has returned false, and no step issues another
\* request of that call.
C3_FailureReturnsFalseNoRetry ==
    /\ [](FailureResponse => valPc = "returned" /\ ret = FALSE /\ inflight = 0)
    /\ [][FailureResponse => ~(nreq' > nreq)]_vars
C3_Witness ==
    resp.kind = "http" /\ resp.status = 422 /\ valPc = "returned" /\ ret = FALSE

----------------------------------------------------------------------------
(* Properties of process_csv *)

\* the position in the input table of the k-th row of S, S a set of positions
NthOf(S, k) == CHOOSE i \in S : Cardinality({j \in S : j <= i}) = k

KeptPositions == {i \in 1..Len(results) : results[i]}
UnconfidentPositions ==
    {i \in 1..Len(inputTable.rows) :
        ~clean_first_name(inputTable.rows[i][FirstName]).valid}

\* C5: when process_csv has completed, the cleaned table holds exactly the
\* input rows whose validation returned true, in input order, each with its
\* first name normalised and without the validation tag column.
C5_CleanedTableIsKeptRows ==
    csvPc = "returned" =>
        /\ output.written
        /\ Len(results) = Len(inputTable.rows)
        /\ Len(output.cleaned) = Cardinality(KeptPositions)
        /\ \A k \in 1..Len(output.cleaned) :
            LET i == NthOf(KeptPositions, k)
            IN  /\ DOMAIN output.cleaned[k] = inputTable.cols
                /\ output.cleaned[k][Email] = inputTable.rows[i][Email]
                /\ output.cleaned[k][FirstName] =
                       clean_first_name(inputTable.rows[i][FirstName]).name
C5_Witness ==
    /\ csvPc = "returned"
    /\ Len(output.cleaned) = 1 /\ Len(inputTable.rows) = 2
    /\ results = <<FALSE, TRUE>>
    /\ output.cleaned[1][FirstName] # inputTable.rows[2][FirstName]

\* C6: when process_csv has completed, invalid_names holds one entry per
\* input row whose normalisation was not confident, in row order, with that
\* row's original name and e-mail, whether or not the row was kept; the
\* report's counts are the number of entries, of input rows and of cleaned
\* rows.
C6_InvalidNamesAndCounts ==
    csvPc = "returned" =>
        /\ Len(invalid_names) = Cardinality(UnconfidentPositions)
        /\ \A k \in 1..Len(invalid_names) :
            LET i == NthOf(UnconfidentPositions, k)
            IN  invalid_names[k] = [name |-> inputTable.rows[i][FirstName],
                                    email |-> inputTable.rows[i][Email]]
        /\ output.report.entries = invalid_names
        /\ output.report.invalid = Len(invalid_names)
        /\ output.report.total = Len(inputTable.rows)
        /\ output.report.valid = Len(output.cleaned)
C6_Witness ==
    /\ csvPc = "returned"
    /\ Len(inputTable.rows) = 2
    /\ UnconfidentPositions = {1, 2}
    /\ results = <<FALSE, TRUE>>
    /\ Len(invalid_names) = 2

\* C7: at most one request is in flight, and every request of the
\* validation step is for the first row that has no result yet: no request
\* for a later row is issued before the earlier rows, retries included,
\* have resolved.
C7_OneRowAtATime ==
    /\ inflight <= 1
    /\ inflight = 1 => valPc = "waiting"
    /\ nreq > 0 => req.row = Len(results) + 1
    /\ valPc \in {"ready", "waiting", "sleep", "returned"} =>
           validated_count = Len(results) + 1
C7_Witness == inflight = 1 /\ req.row = 2 /\ nreq = 2

\* C8: process_csv raises only for a file-level cause: for a table that has
\* the required columns it always runs to completion.
C8_RowNeverAbortsFile ==
    csvPc = "raised" => ~(RequiredColumns \subseteq inputTable.cols)

----------------------------------------------------------------------------
(* Properties of main *)

\* the attempts recorded so far are the files 1, 2, ... in queue order, one
\* record each, and at the summary there is one for every file of the queue
AttemptsInQueueOrder ==
    /\ Len(attempts) = fileIdx - 1
    /\ \A k \in 1..Len(attempts) : attempts[k].file = k
    /\ mainPc = "done" => Len(attempts) = numFiles

\* a measure of how far the run has got: the file, the position in
\* process_csv, the rows validated, the depth and position of validate_email
Rank(pc) ==
    CASE pc \in {"off", "loop", "call"} -> 0
      [] pc \in {"read", "ready", "done"} -> 1
      [] pc \in {"clean", "waiting"} -> 2
      [] pc \in {"validate", "sleep"} -> 3
      [] pc \in {"returned", "raised"} -> 4
CallSteps == 4 * RecursionLimit + 5
RowSteps == (MaxRows + 1) * CallSteps
FileSteps == 5 * RowSteps
Progressed ==
    fileIdx * FileSteps + Rank(csvPc) * RowSteps + Len(results) * CallSteps
        + 4 * depth + Rank(valPc) + Rank(mainPc)

\* C9: every file of the queue is attempted exactly once, in queue order,
\* whether or not earlier files failed, and the run reaches its summary: no
\* state before the summary is without a next step, and every step takes the
\* run further.
C9_EveryFileAttempted ==
    /\ [](AttemptsInQueueOrder /\ (mainPc = "done" \/ ENABLED Next))
    /\ [][Progressed' > Progressed]_vars
C9_Witness ==
    /\ mainPc = "done"
    /\ Len(attempts) = 2
    /\ ~attempts[1].ok /\ attempts[2].ok

----------------------------------------------------------------------------
(* dedupe.py: dedupe_csv, from its two file names to the table it writes *)

\* key cells: missing, whitespace only, and keys with and without padding
KeyValues == {NaN, <<" ">>, <<"u">>, <<" ", "u", " ">>, <<"v">>}
OtherValues == {<<"p">>, <<"q">>}

\* The master tables pd.read_csv can deliver.  A key column that has rows
\* holds at least one text cell (a column of empty cells only is read as a
\* numeric column, which this model does not cover).
MasterTables ==
    {[cols |-> {LinkedInURL}, rows |-> rows] :
        rows \in {q \in SeqsUpTo([{LinkedInURL} -> KeyValues], MaxMasterRows) :
                    q = <<>> \/ \E i \in 1..Len(q) : ~isna(q[i][LinkedInURL])}}
    \cup {[cols |-> {Name}, rows |-> <<[c \in {Name} |-> <<"p">>]>>]}

InputRowsOver(cols) ==
    {r \in [cols -> KeyValues \cup OtherValues] :
        \A c \in cols : r[c] \in (IF c = LinkedInProfile THEN KeyValues ELSE OtherValues)}
InputTables ==
    {[cols |-> {LinkedInProfile, Name}, rows |-> rows] :
        rows \in SeqsUpTo(InputRowsOver({LinkedInProfile, Name}), MaxInputRows)}
    \cup {[cols |-> {Name}, rows |-> <<[c \in {Name} |-> <<"p">>]>>]}

DedupeInit ==
    /\ master_df = NoTable /\ input_read = NoTable /\ input_df = NoTable
    /\ unique_df = NoTable
    /\ dedupePc = "readMaster"
    /\ mainIdle /\ nameIdle

\* pd.read_csv(master_file)
ReadMaster ==
    /\ dedupePc = "readMaster"
    /\ master_df' \in MasterTables
    /\ dedupePc' = "readInput"
    /\ UNCHANGED <<mainVars, nameVars, input_read, input_df, unique_df>>

\* pd.read_csv(input_file)
ReadInput ==
    /\ dedupePc = "readInput"
    /\ input_read' \in InputTables
    /\ input_df' = input_read'
    /\ dedupePc' = "check"
    /\ UNCHANGED <<mainVars, nameVars, master_df, unique_df>>

\* one of the two pd.read_csv calls raises: dedupe_csv returns None
ReadFails ==
    /\ dedupePc \in {"readMaster", "readInput"}
    /\ dedupePc' = "none"
    /\ UNCHANGED <<mainVars, nameVars, master_df, input_read, input_df, unique_df>>

\* the two column checks: dedupe_csv returns None when a key column is absent
CheckColumns ==
    /\ dedupePc = "check"
    /\ dedupePc' = IF LinkedInURL \notin master_df.cols \/ LinkedInProfile \notin input_df.cols
                   THEN "none" ELSE "filter"
    /\ UNCHANGED <<mainVars, nameVars, master_df, input_read, input_df, unique_df>>

\* from master_urls to the return: the key column is normalised, the rows
\* are filtered and the result is written
Dedupe ==
    /\ dedupePc = "filter"
    /\ LET master_urls == MasterUrls(master_df.rows)
           normalized == NormalizeProfiles(input_df.rows)
           unique_mask == UniqueMask(normalized, master_urls)
       IN  /\ input_df' = [input_df EXCEPT !.rows = normalized]
           /\ unique_df' = [cols |-> input_df.cols,
                            rows |-> MaskRows(normalized, unique_mask, 1)]
    /\ dedupePc' = "returned"
    /\ UNCHANGED <<mainVars, nameVars, master_df, input_read>>

DedupeNext == ReadMaster \/ ReadInput \/ ReadFails \/ CheckColumns \/ Dedupe
DedupeSpec == DedupeInit /\ [][DedupeNext]_vars

\* the positions of the input rows the claim says are kept
UniquePositions ==
    {i \in 1..Len(input_read.rows) :
        LET key == input_read.rows[i][LinkedInProfile]
        IN  /\ ~isna(key)
            /\ Strip(key) # <<>>
            /\ \A j \in 1..Len(master_df.rows) :
                   \/ isna(master_df.rows[j][LinkedInURL])
                   \/ Strip(master_df.rows[j][LinkedInURL]) # Strip(key)}

----------------------------------------------------------------------------
(* Properties of clean_first_name *)

\* the texts of s enclosed in a pair of matching quote characters: two
\* straight double quotes, two straight single quotes, or a left and a right
\* curly double quote, with no closing quote of the pair in between
Enclosed(s, open, close) ==
    {SubSeq(s, i + 1, j - 1) :
        <<i, j>> \in {p \in (1..Len(s)) \X (1..Len(s)) :
                        /\ p[1] + 1 < p[2]
                        /\ s[p[1]] = open /\ s[p[2]] = close
                        /\ \A m \in (p[1] + 1)..(p[2] - 1) : s[m] # close}}
QuotedTexts(s) ==
    Enclosed(s, DoubleQuote, DoubleQuote) \cup Enclosed(s, SingleQuote, SingleQuote)
        \cup Enclosed(s, LeftCurlyQuote, RightCurlyQuote)

\* C10: for a name that is not initials and holds a text enclosed in a pair
\* of matching quote characters, clean_first_name returns a trimmed enclosed
\* text, with is_valid true.
C10_QuotedTextExtracted ==
    (namePc # "call" /\ ~isna(rawName) /\ ~is_initials(rawName)
        /\ QuotedTexts(Strip(rawName)) # {}) =>
        /\ ~cleaned.raised
        /\ cleaned.valid
        /\ cleaned.name \in {Strip(t) : t \in QuotedTexts(Strip(rawName))}

====
